---- MODULE Spec2Model ----
(***************************************************************************)
(* Model of the two stateful components of the chatbot front end:          *)
(*   - Chat      (src/src/components/Chat.jsx): the message input, the     *)
(*     transcript `messages` and the pending setTimeout reply callbacks;   *)
(*   - Converter (src/unnamed/part_000): the selected file, the status     *)
(*     line, the converting flag, the audio reference and the pending      *)
(*     continuations of handleConvert.                                     *)
(* React state is committed and the component re-rendered after every      *)
(* handler, so a handler reads the state values of the latest render; a    *)
(* callback registered with setTimeout keeps the values of the render in   *)
(* which it was created.  The two components live on different routes and  *)
(* are modelled as independent sessions: each specification below moves    *)
(* one component and leaves the other in its initial state.  GuideSpec     *)
(* runs the chat with the handleSendMessage that                           *)
(* src/BACKEND_INTEGRATION_GUIDE.md gives as its replacement, the only     *)
(* code of the repository in which the reply provider can fail.            *)
(***************************************************************************)
EXTENDS Integers, Sequences, FiniteSets, TLC

\* Longest text typed into the message input.
MaxLen == 2
\* Most accepted submits in one chat session.
MaxTurns == 2
\* Most conversions started in one converter session.
MaxConversions == 5

(***************************************************************************)
(* A text is a sequence of pieces whose concatenation is the string.  A    *)
(* typed text has one piece per character, " " standing for any            *)
(* whitespace; a fixed text of the code is a single piece.                 *)
(***************************************************************************)
Chars == {"a", " "}

IsWhitespace(c) == c = " "

Texts == UNION {[1..n -> Chars] : n \in 0..MaxLen}

RECURSIVE trimStart(_)
trimStart(s) ==
  IF s # <<>> /\ IsWhitespace(Head(s)) THEN trimStart(Tail(s)) ELSE s

RECURSIVE trimEnd(_)
trimEnd(s) ==
  IF s # <<>> /\ IsWhitespace(s[Len(s)])
  THEN trimEnd(SubSeq(s, 1, Len(s) - 1))
  ELSE s

\* String.prototype.trim
trim(s) == trimEnd(trimStart(s))

\* JavaScript truthiness of a string: the empty string is falsy.
Truthy(s) == s # <<>>

GreetingText == <<"Hello! How can I assist you today?">>

HiText == <<"Hi!">>

DemoResponseText ==
  <<"Thanks for your message! This is a demo response.">>

VARIABLES
  message,    \* Chat: the text in the input box
  messages,   \* Chat: the transcript
  timers,     \* Chat: pending setTimeout callbacks, in firing order
  turns,      \* history: accepted submits so far
  chatOp,     \* history: the last event that changed the input, called
              \* handleSendMessage or delivered a reply
  selectedFile,      \* Converter: the chosen file, or null
  conversionStatus,  \* Converter: the status line
  statusVariant,     \* Converter: the colour of the status line
  isConverting,      \* Converter: the converting flag
  audioUrl,          \* Converter: the audio reference, or null
  isAudioReady,      \* Converter: the audio-ready flag
  pending,    \* Converter: handleConvert continuations awaiting their timer
  conversions,       \* history: conversions started so far
  convOp,     \* history: the last event the Converter component handled
  lastPick    \* history: the file of the last handleFileChange

chatVars == <<message, messages, timers, turns, chatOp>>

convVars == <<selectedFile, conversionStatus, statusVariant, isConverting,
              audioUrl, isAudioReady, pending, conversions, convOp,
              lastPick>>

vars == <<message, messages, timers, turns, chatOp,
          selectedFile, conversionStatus, statusVariant, isConverting,
          audioUrl, isAudioReady, pending, conversions, convOp,
          lastPick>>

(***************************************************************************)
(* Chat.  A transcript entry is {id, text, sender}; the model adds the     *)
(* history field `turn`, the number of the submit the entry came from      *)
(* (0 for the two placeholder entries).                                    *)
(***************************************************************************)
SampleMessages ==
  << [id |-> 1, text |-> GreetingText, sender |-> "bot", turn |-> 0],
     [id |-> 2, text |-> HiText, sender |-> "user", turn |-> 0] >>

ChatInit ==
  /\ message = <<>>
  /\ messages = SampleMessages
  /\ timers = <<>>
  /\ turns = 0
  /\ chatOp = "mount"

\* setMessages([...messages, newMessage]): the new state is built from the
\* `messages` value of the handler's render.
SpreadAppend(rendered, entry) == Append(rendered, entry)

\* As FunctionalAppend, but spreading the closure's `messages`.
FunctionalAppendStale(prev, captured, entry) == Append(captured, entry)

\* setMessages((prev) => [...prev, botResponse]): the new state is built from
\* the current state; `captured` is the `messages` of the callback's closure.
FunctionalAppend(prev, captured, entry) == Append(prev, entry)

\* As Accepts, but without the trim.
AcceptsUntrimmed(text) == Truthy(text)

\* if (message.trim())
Accepts(text) == Truthy(trim(text))

\* As Register, but the callback is never scheduled.
RegisterNothing(pendingTimers, closure) == pendingTimers

\* setTimeout(callback, 1000); the callback closes over this render's
\* `messages` (and, as history, the number of its submit).
Register(pendingTimers, closure) == Append(pendingTimers, closure)

\* As ReplyId, but one too small.
ReplyIdOffByOne(captured) == Len(captured) + 1

\* The id the reply callback computes from its closure.
ReplyId(captured) == Len(captured) + 2

\* The body of handleSendMessage.
handleSendMessage ==
  IF Accepts(message)
  THEN /\ turns < MaxTurns
       /\ LET newMessage == [id |-> Len(messages) + 1, text |-> message,
                             sender |-> "user", turn |-> turns + 1]
          IN messages' = SpreadAppend(messages, newMessage)
       /\ message' = <<>>
       /\ timers' = Register(timers, [messages |-> messages,
                                      turn |-> turns + 1])
       /\ turns' = turns + 1
  ELSE UNCHANGED <<message, messages, timers, turns>>

\* The Send button is disabled while the trimmed input is empty.
SendDisabled == ~Truthy(trim(message))

\* onChange of the input box.
handleChange(value) ==
  /\ message' = value
  /\ chatOp' = "change"
  /\ UNCHANGED <<messages, timers, turns>>
  /\ UNCHANGED convVars

\* onClick of the Send button.
SendClick ==
  /\ ~SendDisabled
  /\ handleSendMessage
  /\ chatOp' = "click"
  /\ UNCHANGED convVars

Keys == {"Enter", "a"}

\* onKeyPress of the input box.
handleKeyPress(key, shiftKey) ==
  /\ IF key = "Enter" /\ ~shiftKey
     THEN /\ handleSendMessage
          /\ chatOp' = "enter"
     ELSE UNCHANGED chatVars
  /\ UNCHANGED convVars

\* The callback handleSendMessage registered with setTimeout(..., 1000).
\* All delays are equal, so the callbacks fire in registration order.
replyCallback ==
  /\ timers # <<>>
  /\ LET closure == Head(timers)
         botResponse == [id |-> ReplyId(closure.messages),
                         text |-> DemoResponseText,
                         sender |-> "bot", turn |-> closure.turn]
     IN messages' = FunctionalAppend(messages, closure.messages, botResponse)
  /\ timers' = Tail(timers)
  /\ chatOp' = "reply"
  /\ UNCHANGED <<message, turns>>
  /\ UNCHANGED convVars

(***************************************************************************)
(* Chat with the backend-integrated handleSendMessage of                   *)
(* BACKEND_INTEGRATION_GUIDE.md, which replaces the simulated reply by a   *)
(* fetch that can fail.  `timers` then holds the handlers suspended at     *)
(* their await; responses arrive in any order.                             *)
(***************************************************************************)
FallbackText ==
  <<"Sorry, I'm having trouble connecting to the server. Please try again.">>

\* data.response, the reply text the server returns.
ServerReplies == {<<"reply">>}

RemoveAt(seq, i) == SubSeq(seq, 1, i - 1) \o SubSeq(seq, i + 1, Len(seq))

\* The guide's handleSendMessage up to its await.
guideHandleSendMessage ==
  IF Truthy(trim(message))
  THEN /\ turns < MaxTurns
       /\ LET userMessage == [id |-> Len(messages) + 1, text |-> message,
                              sender |-> "user", turn |-> turns + 1]
          IN messages' = Append(messages, userMessage)
       /\ message' = <<>>
       /\ timers' = Append(timers, [messages |-> messages,
                                    turn |-> turns + 1])
       /\ turns' = turns + 1
  ELSE UNCHANGED <<message, messages, timers, turns>>

\* The rest of the try block: the fetch resolved with an ok response.
guideTry(i, reply) ==
  /\ LET botResponse == [id |-> Len(timers[i].messages) + 2, text |-> reply,
                         sender |-> "bot", turn |-> timers[i].turn]
     IN messages' = Append(messages, botResponse)
  /\ timers' = RemoveAt(timers, i)

\* As guideCatch, but the request is sent again instead of answered.
guideCatchRetries(i) ==
  /\ messages' = messages
  /\ timers' = Append(RemoveAt(timers, i), timers[i])

\* The catch block: the fetch rejected, or the response was not ok.
guideCatch(i) ==
  /\ LET errorResponse == [id |-> Len(timers[i].messages) + 2,
                           text |-> FallbackText,
                           sender |-> "bot", turn |-> timers[i].turn]
     IN messages' = Append(messages, errorResponse)
  /\ timers' = RemoveAt(timers, i)

GuideSendClick ==
  /\ ~SendDisabled
  /\ guideHandleSendMessage
  /\ chatOp' = "click"
  /\ UNCHANGED convVars

GuideKeyPress(key, shiftKey) ==
  /\ IF key = "Enter" /\ ~shiftKey
     THEN /\ guideHandleSendMessage
          /\ chatOp' = "enter"
     ELSE UNCHANGED chatVars
  /\ UNCHANGED convVars

GuideResponse ==
  \E i \in DOMAIN timers, reply \in ServerReplies :
    /\ guideTry(i, reply)
    /\ chatOp' = "response"
    /\ UNCHANGED <<message, turns>>
    /\ UNCHANGED convVars

GuideFailure ==
  \E i \in DOMAIN timers :
    /\ guideCatch(i)
    /\ chatOp' = "failure"
    /\ UNCHANGED <<message, turns>>
    /\ UNCHANGED convVars

(***************************************************************************)
(* Converter.  A file is known by its name; FileType is its declared media *)
(* type (file.type).  null is JavaScript's null, undefined the empty       *)
(* e.target.files[0] of a dismissed file dialog.                           *)
(***************************************************************************)
null == "null"

undefined == "undefined"

Files == {"a.pdf", "b.pdf", "c.png", "d.txt"}

FileType(file) ==
  CASE file = "a.pdf" -> "application/pdf"
    [] file = "b.pdf" -> "application/pdf"
    [] file = "c.png" -> "image/png"
    [] file = "d.txt" -> "text/plain"

WaitingStatus == "Waiting for file upload..."

\* `File selected: ${file.name}`
FileSelectedStatus(file) ==
  CASE file = "a.pdf" -> "File selected: a.pdf"
    [] file = "b.pdf" -> "File selected: b.pdf"
    [] file = "c.png" -> "File selected: c.png"
    [] file = "d.txt" -> "File selected: d.txt"

InvalidFileStatus == "Please select a valid PDF file."

SelectFirstStatus == "Please select a PDF file first."

ConvertingStatus == "Converting PDF to audio..."

CompleteStatus == "Conversion complete! Play your audio below."

FailedStatus == "Conversion failed. Please try again."

demoAudioUrl == "https://www.soundjay.com/misc/sounds-yoyo/beep-07a.mp3"

ConvInit ==
  /\ selectedFile = null
  /\ conversionStatus = WaitingStatus
  /\ isConverting = FALSE
  /\ statusVariant = "info"
  /\ audioUrl = null
  /\ isAudioReady = FALSE
  /\ pending = 0
  /\ conversions = 0
  /\ convOp = "mount"
  /\ lastPick = undefined

\* As handleFileChange, but a file of another type leaves the earlier
\* selection in place.
handleFileChangeKeepsSelection(file) ==
  /\ IF file # undefined
     THEN IF FileType(file) = "application/pdf"
          THEN /\ selectedFile' = file
               /\ conversionStatus' = FileSelectedStatus(file)
               /\ statusVariant' = "success"
          ELSE /\ selectedFile' = selectedFile
               /\ conversionStatus' = InvalidFileStatus
               /\ statusVariant' = "warning"
     ELSE /\ selectedFile' = null
          /\ conversionStatus' = WaitingStatus
          /\ statusVariant' = "info"
  /\ UNCHANGED <<isConverting, audioUrl, isAudioReady, pending, conversions>>

\* The body of handleFileChange, file = e.target.files[0].
handleFileChange(file) ==
  /\ IF file # undefined
     THEN IF FileType(file) = "application/pdf"
          THEN /\ selectedFile' = file
               /\ conversionStatus' = FileSelectedStatus(file)
               /\ statusVariant' = "success"
          ELSE /\ selectedFile' = null
               /\ conversionStatus' = InvalidFileStatus
               /\ statusVariant' = "warning"
     ELSE /\ selectedFile' = null
          /\ conversionStatus' = WaitingStatus
          /\ statusVariant' = "info"
  /\ UNCHANGED <<isConverting, audioUrl, isAudioReady, pending, conversions>>

\* As handleConvert, but without the return after the warning.
handleConvertWithoutReturn ==
  /\ conversions < MaxConversions
  /\ isConverting' = TRUE
  /\ conversionStatus' = ConvertingStatus
  /\ statusVariant' = "primary"
  /\ pending' = pending + 1
  /\ conversions' = conversions + 1
  /\ UNCHANGED <<selectedFile, audioUrl, isAudioReady>>

\* handleConvert up to its await: the early return, or the start of a
\* conversion whose continuation waits for the 3000 ms timer.
handleConvert ==
  IF selectedFile = null
  THEN /\ conversionStatus' = SelectFirstStatus
       /\ statusVariant' = "warning"
       /\ UNCHANGED <<selectedFile, isConverting, audioUrl, isAudioReady,
                      pending, conversions>>
  ELSE /\ conversions < MaxConversions
       /\ isConverting' = TRUE
       /\ conversionStatus' = ConvertingStatus
       /\ statusVariant' = "primary"
       /\ pending' = pending + 1
       /\ conversions' = conversions + 1
       /\ UNCHANGED <<selectedFile, audioUrl, isAudioReady>>

\* As convertContinuation, but the awaited call rejects: the catch block
\* runs instead of the rest of the try block.
convertContinuationFails ==
  /\ pending > 0
  /\ pending' = pending - 1
  /\ conversionStatus' = FailedStatus
  /\ statusVariant' = "danger"
  /\ isConverting' = FALSE
  /\ UNCHANGED <<selectedFile, audioUrl, isAudioReady, conversions>>

\* handleConvert after its await.  The awaited promise can only resolve, so
\* the try block runs to its end and the finally block follows.
convertContinuation ==
  /\ pending > 0
  /\ pending' = pending - 1
  /\ audioUrl' = demoAudioUrl
  /\ isAudioReady' = TRUE
  /\ conversionStatus' = CompleteStatus
  /\ statusVariant' = "success"
  /\ isConverting' = FALSE
  /\ UNCHANGED <<selectedFile, conversions>>

\* As handleCancel, but without the reset of the audio reference.
handleCancelKeepsAudio ==
  /\ selectedFile' = null
  /\ conversionStatus' = WaitingStatus
  /\ statusVariant' = "info"
  /\ isConverting' = FALSE
  /\ UNCHANGED <<audioUrl, isAudioReady, pending, conversions>>

\* As handleCancel, but without the reset of the audio-ready flag.
handleCancelKeepsReadyFlag ==
  /\ selectedFile' = null
  /\ conversionStatus' = WaitingStatus
  /\ statusVariant' = "info"
  /\ isConverting' = FALSE
  /\ audioUrl' = null
  /\ UNCHANGED <<isAudioReady, pending, conversions>>

\* The body of handleCancel.
handleCancel ==
  /\ selectedFile' = null
  /\ conversionStatus' = WaitingStatus
  /\ statusVariant' = "info"
  /\ isConverting' = FALSE
  /\ audioUrl' = null
  /\ isAudioReady' = FALSE
  /\ UNCHANGED <<pending, conversions>>

\* The controls' disabled attributes.
\* As FileInputDisabled, but the input carries no disabled attribute.
FileInputNeverDisabled == FALSE

FileInputDisabled == isConverting

\* As ConvertDisabled, but without the isConverting disjunct.
ConvertDisabledIgnoresConverting == selectedFile = null

ConvertDisabled == selectedFile = null \/ isConverting

CancelDisabled == isConverting

\* The gestures the rendered controls allow.
FileChange(file) ==
  /\ ~FileInputDisabled
  /\ handleFileChange(file)
  /\ convOp' = "select"
  /\ lastPick' = file
  /\ UNCHANGED chatVars

ConvertClick ==
  /\ ~ConvertDisabled
  /\ handleConvert
  /\ convOp' = "convert"
  /\ UNCHANGED lastPick
  /\ UNCHANGED chatVars

CancelClick ==
  /\ ~CancelDisabled
  /\ handleCancel
  /\ convOp' = "cancel"
  /\ UNCHANGED lastPick
  /\ UNCHANGED chatVars

ConversionDone ==
  /\ convertContinuation
  /\ convOp' = "done"
  /\ UNCHANGED lastPick
  /\ UNCHANGED chatVars

\* The handlers called as the controller's operations, in any state.
selectFile(file) ==
  /\ handleFileChange(file)
  /\ convOp' = "select"
  /\ lastPick' = file
  /\ UNCHANGED chatVars

convert ==
  /\ handleConvert
  /\ convOp' = "convert"
  /\ UNCHANGED lastPick
  /\ UNCHANGED chatVars

cancel ==
  /\ handleCancel
  /\ convOp' = "cancel"
  /\ UNCHANGED lastPick
  /\ UNCHANGED chatVars

ChatNext ==
  \/ \E value \in Texts : handleChange(value)
  \/ SendClick
  \/ \E key \in Keys, shiftKey \in BOOLEAN : handleKeyPress(key, shiftKey)
  \/ replyCallback

GuideNext ==
  \/ \E value \in Texts : handleChange(value)
  \/ GuideSendClick
  \/ \E key \in Keys, shiftKey \in BOOLEAN : GuideKeyPress(key, shiftKey)
  \/ GuideResponse
  \/ GuideFailure

ConvNext ==
  \/ \E file \in Files \cup {undefined} : FileChange(file)
  \/ ConvertClick
  \/ CancelClick
  \/ ConversionDone

OpNext ==
  \/ \E file \in Files \cup {undefined} : selectFile(file)
  \/ convert
  \/ cancel
  \/ ConversionDone

Init == ChatInit /\ ConvInit

\* One chat session.
Spec == Init /\ [][ChatNext]_vars

\* One chat session in which every pending timer fires.
FairSpec == Spec /\ WF_vars(replyCallback)

\* One chat session with the guide's backend-integrated handler.
GuideSpec == Init /\ [][GuideNext]_vars

\* One converter session driven through its controls.
ConvSpec == Init /\ [][ConvNext]_vars

\* One converter session, driven through its controls, in which the 3000 ms
\* timer of every started conversion fires.
ConvFairSpec == ConvSpec /\ WF_vars(ConversionDone)

\* One converter session with the handlers called in any state.
OpSpec == Init /\ [][OpNext]_vars

(***************************************************************************)
(* Properties of the chat session.                                         *)
(***************************************************************************)
UserEntries(k) ==
  {i \in DOMAIN messages : messages[i].turn = k /\ messages[i].sender = "user"}

BotEntries(k) ==
  {i \in DOMAIN messages : messages[i].turn = k /\ messages[i].sender = "bot"}

PendingTurns == {timers[i].turn : i \in DOMAIN timers}

IsPrefix(s, t) == Len(s) <= Len(t) /\ SubSeq(t, 1, Len(s)) = s

\* Every accepted submit has exactly one user entry, at most one bot entry,
\* and lacks its bot entry exactly while its timer is pending; nothing else
\* is ever added to the transcript.
TwoEntriesPerTurn ==
  /\ \A k \in 1..MaxTurns :
       IF k <= turns
       THEN /\ Cardinality(UserEntries(k)) = 1
            /\ Cardinality(BotEntries(k)) <= 1
            /\ (BotEntries(k) = {}) <=> (k \in PendingTurns)
       ELSE UserEntries(k) = {} /\ BotEntries(k) = {}
  /\ \A i \in DOMAIN messages : messages[i].turn \in 0..turns
  /\ Len(messages) = Len(SampleMessages) + 2 * turns - Len(timers)

\* C1: every submit of a text that is non-empty after trimming puts exactly
\* one user entry into the transcript at once and, eventually, exactly one
\* bot entry; no submit contributes fewer or more than these two entries.
C1_TwoEntriesPerSubmit ==
  /\ []TwoEntriesPerTurn
  /\ [][ (chatOp' \in {"click", "enter"} /\ Truthy(trim(message)))
          => /\ turns' = turns + 1
             /\ Len(messages') = Len(messages) + 1
             /\ messages'[Len(messages')].sender = "user"
             /\ messages'[Len(messages')].turn = turns' ]_vars
  /\ \A k \in 1..MaxTurns :
       (turns >= k) ~> (Cardinality(BotEntries(k)) = 1)

\* Two overlapping exchanges have both completed.
C1_Witness ==
  /\ turns >= 2
  /\ \E i \in DOMAIN messages :
       /\ i + 3 <= Len(messages)
       /\ messages[i].sender = "user" /\ messages[i].turn = 1
       /\ messages[i + 1].sender = "user" /\ messages[i + 1].turn = 2
       /\ messages[i + 2].sender = "bot" /\ messages[i + 2].turn = 1
       /\ messages[i + 3].sender = "bot" /\ messages[i + 3].turn = 2

\* C2: a submit, by the Send button or by the Enter key, of a text that is
\* empty or all whitespace leaves the transcript unchanged and starts no
\* reply timer.
C2_BlankSubmitIsNoOp ==
  [][ (chatOp' \in {"click", "enter"} /\ ~Truthy(trim(message)))
        => (messages' = messages /\ timers' = timers) ]_vars

\* Enter was pressed on a whitespace-only input, which is still in the box.
C2_Witness ==
  /\ chatOp = "enter"
  /\ Truthy(message)
  /\ ~Truthy(trim(message))

\* C3: the ids of the transcript entries are strictly increasing in
\* transcript order.
C3_IdsStrictlyIncreasing ==
  \A i \in 1..(Len(messages) - 1) : messages[i].id < messages[i + 1].id

\* C4: at most one exchange is in flight: no second reply timer is started
\* while one is pending.
C4_AtMostOneInFlight == Len(timers) <= 1

\* C5: each submitted user entry comes before its own reply, and no entry
\* lies between the two.
C5_ReplyFollowsItsUserEntry ==
  \A k \in 1..turns :
    \A i \in UserEntries(k) : \A j \in BotEntries(k) : j = i + 1

\* C6: the transcript before a step is a prefix of the transcript after it.
C6_AppendOnly == [][IsPrefix(messages, messages')]_vars

\* A reply has arrived while a later submit's reply was still pending.
C6_Witness ==
  /\ chatOp = "reply"
  /\ timers # <<>>
  /\ Len(messages) >= Len(SampleMessages) + 3

(***************************************************************************)
(* Properties of the converter session.                                    *)
(***************************************************************************)
\* The Conversion Job's status as the component shows it.
JobStatus ==
  CASE isConverting -> "converting"
    [] ~isConverting /\ conversionStatus = CompleteStatus -> "ready"
    [] ~isConverting /\ conversionStatus = InvalidFileStatus -> "rejected"
    [] OTHER -> "idle"

\* C7: the audio reference is set exactly while the job's status is ready.
C7_AudioSetIffReady == (audioUrl # null) <=> (JobStatus = "ready")

\* C8: cancel leaves the job idle (no file, no audio reference, not
\* converting, the initial status line) and starts no conversion.
C8_CancelResets ==
  [][ convOp' = "cancel"
        => /\ selectedFile' = null
           /\ audioUrl' = null
           /\ isAudioReady' = FALSE
           /\ isConverting' = FALSE
           /\ conversionStatus' = WaitingStatus
           /\ statusVariant' = "info"
           /\ pending' = pending
           /\ conversions' = conversions ]_vars

\* cancel was called after a completed conversion while another one was in
\* flight.
C8_Witness ==
  /\ convOp = "cancel"
  /\ pending > 0
  /\ conversions >= 2
  /\ audioUrl = null

IsRejected(file) == file \in Files /\ FileType(file) # "application/pdf"

\* C9: a file of another type than application/pdf is never kept as the
\* selected file, and a convert that follows it with no selection in between
\* starts nothing and reports that a file must be selected first.
C9_RejectedFileBlocksConvert ==
  [][ /\ (convOp' = "select" /\ IsRejected(lastPick')) => selectedFile' = null
      /\ (convOp' = "convert" /\ IsRejected(lastPick))
           => /\ conversionStatus' = SelectFirstStatus
              /\ statusVariant' = "warning"
              /\ pending' = pending
              /\ conversions' = conversions
              /\ isConverting' = isConverting
              /\ selectedFile' = null ]_vars

\* convert was called after a PDF had been selected and then replaced by a
\* file of another type.
C9_Witness ==
  /\ convOp = "convert"
  /\ IsRejected(lastPick)
  /\ conversionStatus = SelectFirstStatus
  /\ conversions >= 1

\* C10: convert with no selected file sets the warning status and nothing
\* else.
C10_ConvertWithoutFile ==
  [][ (convOp' = "convert" /\ selectedFile = null)
        => /\ conversionStatus' = SelectFirstStatus
           /\ statusVariant' = "warning"
           /\ UNCHANGED <<selectedFile, isConverting, audioUrl, isAudioReady,
                          pending, conversions>> ]_vars

\* convert was called with no selected file while an earlier result was set.
C10_Witness ==
  /\ convOp = "convert"
  /\ selectedFile = null
  /\ conversionStatus = SelectFirstStatus
  /\ audioUrl = demoAudioUrl

\* C11: through the controls at most one conversion is in flight, and it is
\* in flight exactly while isConverting is true, so that no convert starts
\* during it.
C11_AtMostOneConversion ==
  /\ pending <= 1
  /\ isConverting <=> (pending = 1)

\* A second conversion is in flight, alone, after the first one completed.
C11_Witness ==
  /\ isConverting
  /\ pending = 1
  /\ conversions = 2

\* C12: while a conversion is in progress no earlier result is set.
C12_ConvertingDiscardsResult ==
  isConverting => (audioUrl = null /\ isAudioReady = FALSE)

\* C13: right after a file selection no earlier result is set.
C13_SelectionDiscardsResult ==
  (convOp = "select") => (audioUrl = null /\ isAudioReady = FALSE)

\* The state in which a conversion has completed successfully.
ConversionSucceeded ==
  /\ ~isConverting
  /\ audioUrl = demoAudioUrl
  /\ isAudioReady
  /\ conversionStatus = CompleteStatus
  /\ statusVariant = "success"

\* C14: every started conversion eventually completes successfully, the
\* failed status is never shown, and after the completion the Convert button
\* is enabled again.
C14_ConversionSucceeds ==
  /\ isConverting ~> ConversionSucceeded
  /\ [](conversionStatus # FailedStatus /\ statusVariant # "danger")
  /\ [][convOp' = "done" => (ConversionSucceeded' /\ ~ConvertDisabled')]_vars

\* The second conversion of the session has completed.
C14_Witness ==
  /\ convOp = "done"
  /\ conversions = 2
  /\ ConversionSucceeded
  /\ ~ConvertDisabled

\* C18: the audio-ready flag is set exactly when the audio reference is.
C18_ReadyFlagMatchesUrl == isAudioReady <=> (audioUrl # null)

\* A result was set, cleared by cancel, and set again by a later completion.
C18_Witness ==
  /\ isAudioReady
  /\ audioUrl = demoAudioUrl
  /\ conversions >= 2
  /\ selectedFile = null
  /\ convOp = "done"

\* C19: through the controls isConverting is true exactly while the status
\* line reads "Converting PDF to audio..." in the primary variant, and the
\* only step taken while it is true is the completion of the conversion.
C19_ConvertingIsQuiescent ==
  /\ [](isConverting
          <=> (conversionStatus = ConvertingStatus /\ statusVariant = "primary"))
  /\ [][isConverting
          => (convOp' = "done" /\ selectedFile' = selectedFile) ]_vars

\* A conversion is in progress while the result of an earlier one is set.
C19_Witness ==
  /\ isConverting
  /\ conversionStatus = ConvertingStatus
  /\ statusVariant = "primary"
  /\ audioUrl = demoAudioUrl
  /\ conversions = 3

\* C16: the text of every submitted user entry is trimmed.
C16_StoredTextIsTrimmed ==
  \A i \in DOMAIN messages :
    (messages[i].sender = "user" /\ messages[i].turn >= 1)
      => messages[i].text = trim(messages[i].text)

\* C17 as stated: once the first exchange of a session is complete the
\* transcript holds exactly two entries, a user entry with id 1 and a bot
\* entry with id 2.
C17_FirstExchangeIsWholeTranscript ==
  (turns = 1 /\ timers = <<>>)
    => /\ Len(messages) = 2
       /\ messages[1].id = 1 /\ messages[1].sender = "user"
       /\ messages[2].id = 2 /\ messages[2].sender = "bot"

\* C17, amended: a session starts with the two sample entries (ids 1 and
\* 2); the first submit appends the user entry with id 3 and the text as
\* typed, and once its reply has arrived the transcript holds exactly four
\* entries, the last being the bot entry with id 4 and the demo reply text.
C17_FirstExchangeFollowsSamples ==
  /\ [](turns = 0 => messages = SampleMessages)
  /\ [][ (turns = 0 /\ turns' = 1)
           => messages' = Append(SampleMessages,
                                 [id |-> 3, text |-> message,
                                  sender |-> "user", turn |-> 1]) ]_vars
  /\ []((turns = 1 /\ timers = <<>>)
          => /\ Len(messages) = 4
             /\ SubSeq(messages, 1, 2) = SampleMessages
             /\ messages[3].id = 3 /\ messages[3].sender = "user"
             /\ messages[4] = [id |-> 4, text |-> DemoResponseText,
                               sender |-> "bot", turn |-> 1])

\* The reply of the session's first exchange has just arrived.
C17_Witness ==
  /\ turns = 1
  /\ timers = <<>>
  /\ chatOp = "reply"
  /\ Len(messages) = 4

\* C15: when the provider fails for a submit, one bot entry with the fallback
\* text is appended for that turn and nothing else changes in the
\* transcript, the turn is no longer pending, and no request is sent again;
\* no turn ever gets a second bot entry.
C15_FailureAppendsFallbackOnce ==
  /\ [][ chatOp' = "failure"
           => /\ Len(messages') = Len(messages) + 1
              /\ IsPrefix(messages, messages')
              /\ LET entry == messages'[Len(messages')]
                 IN /\ entry.sender = "bot"
                    /\ entry.text = FallbackText
                    /\ entry.turn \in PendingTurns
                    /\ entry.turn \notin {timers'[i].turn : i \in DOMAIN timers'}
              /\ Len(timers') = Len(timers) - 1 ]_vars
  /\ [](\A k \in 1..MaxTurns : Cardinality(BotEntries(k)) <= 1)

\* The provider failed for the second submit while the first was pending.
C15_Witness ==
  /\ chatOp = "failure"
  /\ Len(timers) = 1
  /\ timers[1].turn = 1
  /\ messages[Len(messages)].text = FallbackText
  /\ messages[Len(messages)].turn = 2

====
